---- MODULE Spec2Model ----
(***************************************************************************)
(* sound-gambit: look-ahead digital peak limiter (Peaklim), its sliding    *)
(* minimum filter (Histmin), the 4x true-peak upsampler (Upsampler) and    *)
(* the command line host (main).                                           *)
(*                                                                         *)
(* Arithmetic.  The program computes in float32.  The model computes in   *)
(* fixed point: a float value v is the integer floor(v * One), One = 2^20, *)
(* and every product and quotient is rounded towards minus infinity.       *)
(***************************************************************************)
EXTENDS Integers, Sequences, FiniteSets, TLC

VARIABLES
    hm,      \* Histmin under test: [hlen, hold, wind, vmin, hist]
    hlog,    \* every value written to hm since init, oldest first
    hscan,   \* TRUE when the last write took the rescan branch
    u,       \* Upsampler under test: [nchan, z], z[chn] the 48-sample history
    uchn,    \* the channel process_one is driven on
    uin,     \* the inputs given to process_one, oldest first
    uph,     \* the four phase outputs u[0..3] of each step
    uret,    \* the value returned by each step
    p,       \* the Peaklim engine (main's "Peaklim p"), a record of its members
    p2,      \* a second engine, given every call p is given but ToggleTwice
    sig,     \* the input stream the engines are fed: [kind, amp, pos]
    t,       \* frames of the stream processed so far
    t0,      \* the value of t at the last init
    tr,      \* what process has produced since init: [out, z3s, gs, h1w, h2w, pks]
    last,    \* the last call made on p
    pre,     \* p before the last call, when that was not process
    ops,     \* calls other than process made so far
    same,    \* p and p2 have produced the same output frames so far
    dtOn,    \* ToggleTwice was called while true-peak detection was on
    dtOff,   \* ToggleTwice was called while true-peak detection was off
    tpu,     \* process has run with true-peak detection on since init
    lim,     \* the frames of the stream the run goes through
    blens,   \* the block lengths main reads the stream in
    sr,      \* the last get_stats: [armed, mark, pmark, gmax, gmin]
    host     \* the host (main): [pc, src, rem, L, latency, eng, dst, rv, short, ..]

histVars == <<hm, hlog, hscan>>
upsVars  == <<u, uchn, uin, uph, uret>>
engVars  == <<p, p2, sig, t, t0, tr, last, pre, ops, same, dtOn, dtOff, tpu,
               lim, blens, sr>>
vars == <<histVars, upsVars, engVars, host>>

HistIdle == hm = <<>> /\ hlog = <<>> /\ hscan = FALSE
UpsIdle  == u = <<>> /\ uchn = 0 /\ uin = <<>> /\ uph = <<>> /\ uret = <<>>
EngIdle  ==
    /\ p = <<>> /\ p2 = <<>> /\ sig = <<>> /\ t = 0 /\ t0 = 0 /\ tr = <<>>
    /\ last = "" /\ pre = <<>> /\ ops = 0 /\ same = TRUE /\ dtOn = FALSE
    /\ dtOff = FALSE /\ tpu = FALSE /\ lim = 0 /\ blens = {} /\ sr = <<>>
HostIdle == host = <<>>

-----------------------------------------------------------------------------
(* Fixed point                                                             *)

Half == 2^10
One  == Half * Half

Abs(a) == IF a < 0 THEN -a ELSE a
Max(a, b) == IF a < b THEN b ELSE a
Min(a, b) == IF b < a THEN b ELSE a

\* a * b of two fixed-point values: floor(a * b / One), computed on 10-bit
\* limbs so that no intermediate product leaves the 32-bit integers.
Mul(a, b) ==
    LET ah == a \div Half
        al == a % Half
        bh == b \div Half
        bl == b % Half
    IN  ah * bh + ((ah * bl + al * bh + ((al * bl) \div Half)) \div Half)

\* a / b as a fixed-point value, floor(a * One / b), one bit at a time
RECURSIVE DivBits(_, _, _, _)
DivBits(q, r, b, bits) ==
    IF bits = 0 THEN q
    ELSE DivBits(2 * q + ((2 * r) \div b), (2 * r) % b, b, bits - 1)

FixDiv(a, b) == DivBits(a \div b, a % b, b, 20)

\* 1.0f / m for m >= 1.0: floor(One * One / m) by long division.
Recip(m) ==
    LET q0 == (One * Half) \div m
        r0 == (One * Half) % m
        q1 == (r0 * 32) \div m
        r1 == (r0 * 32) % m
        q2 == (r1 * 32) \div m
    IN  q0 * Half + q1 * 32 + q2

-----------------------------------------------------------------------------
(* Histmin                                                                 *)

SIZE == 16
MASK == SIZE - 1

\* Histmin::init
HistminInit(hlen) ==
    [hlen |-> hlen, hold |-> hlen, wind |-> 0, vmin |-> One,
     hist |-> [k \in 0..MASK |-> One]]

\* the rescan loop of Histmin::write: for (j = start; j < 0; j++)
RECURSIVE Rescan(_, _, _, _, _, _)
Rescan(hist, i, hlen, j, vmin, hold) ==
    IF j >= 0 THEN [vmin |-> vmin, hold |-> hold]
    ELSE LET v == hist[(i + j) % SIZE]
         IN  IF v < vmin
             THEN Rescan(hist, i, hlen, j + 1, v, hlen + j)
             ELSE Rescan(hist, i, hlen, j + 1, vmin, hold)

\* Histmin::write with the rescan starting one entry late
HistminWriteShort(h, v) ==
    LET i    == h.wind
        hist == [h.hist EXCEPT ![i] = v]
        r    == IF v <= h.vmin THEN [vmin |-> v, hold |-> h.hlen]
                ELSE IF h.hold - 1 = 0
                     THEN Rescan(hist, i, h.hlen, 2 - h.hlen, v, h.hlen)
                     ELSE [vmin |-> h.vmin, hold |-> h.hold - 1]
    IN  [h EXCEPT !.hist = hist, !.vmin = r.vmin, !.hold = r.hold,
                  !.wind = (i + 1) % SIZE]

\* Histmin::write; the value returned is the new vmin
HistminWrite(h, v) ==
    LET i    == h.wind
        hist == [h.hist EXCEPT ![i] = v]
        r    == IF v <= h.vmin THEN [vmin |-> v, hold |-> h.hlen]
                ELSE IF h.hold - 1 = 0
                     THEN Rescan(hist, i, h.hlen, 1 - h.hlen, v, h.hlen)
                     ELSE [vmin |-> h.vmin, hold |-> h.hold - 1]
    IN  [h EXCEPT !.hist = hist, !.vmin = r.vmin, !.hold = r.hold,
                  !.wind = (i + 1) % SIZE]

\* Histmin::vmin
Vmin(h) == h.vmin

-----------------------------------------------------------------------------
(* Histmin driven alone: every window length, every stream over HistVals   *)

MaxWrites == 7
HistVals  == {One \div 2, One, One + One}
\* After MaxWrites free values the stream goes on with HistTail, for as long
\* as it takes the longest window to slide past every free value.
HistTail  == One + One
MaxStream == MaxWrites + SIZE + 1

HistInit ==
    /\ \E L \in 1..SIZE : hm = HistminInit(L)
    /\ hlog = <<>>
    /\ hscan = FALSE
    /\ UpsIdle
    /\ EngIdle
    /\ HostIdle

HistWriteStep ==
    /\ Len(hlog) < MaxStream
    /\ \E v \in (IF Len(hlog) < MaxWrites THEN HistVals ELSE {HistTail}) :
          /\ hm' = HistminWrite(hm, v)
          /\ hlog' = Append(hlog, v)
          /\ hscan' = (v > hm.vmin /\ hm.hold = 1)
    /\ UNCHANGED <<upsVars, engVars, host>>

HistNext == HistWriteStep

SpecHist == HistInit /\ [][HistNext]_vars

\* the last L values written, the writes that have not happened being 1.0
LastL(L, log) ==
    [k \in 1..L |-> IF Len(log) - L + k >= 1 THEN log[Len(log) - L + k] ELSE One]

SeqMin(s) == CHOOSE m \in {s[k] : k \in 1..Len(s)} :
                \A k \in 1..Len(s) : m <= s[k]

\* C3: the value returned by each Histmin::write, and by vmin() afterwards,
\* is the minimum of the last L values written, unwritten ones counting as 1.0.
C3_SlidingMin == Vmin(hm) = SeqMin(LastL(hm.hlen, hlog))

\* C3 witness: at least L writes, the cached minimum expired and the rescan
\* found the new minimum at an older entry of the window.
C3_Witness ==
    /\ hscan
    /\ hm.hlen = SIZE
    /\ Len(hlog) > SIZE
    /\ Vmin(hm) < hlog[Len(hlog)]

-----------------------------------------------------------------------------
(* Upsampler: 4x polyphase FIR, 48 taps, cosine windowed sinc               *)
(* The three coefficient rows are the float literals of the source, each    *)
(* rounded to the nearest multiple of 1/One.  Peaklim::process carries the  *)
(* same three rows (peaklim.cc:272-307).                                    *)

NTAPS == 48

Coef1 ==
    <<     -24,     139,    -356,     688,   -1147,    1747,   -2501,    3427,
         -4545,    5877,   -7455,    9318,  -11518,   14127,  -17251,   21047,
        -25758,   31788,  -39853,   51345,  -69383,  102636, -187549,  943797,
        313926, -133103,   83072,  -59221,   45037,  -35502,   28573,  -23267,
         19052,  -15617,   12765,  -10372,    8348,   -6633,    5182,   -3961,
          2942,   -2104,    1429,    -901,     507,    -234,      69,      -3 >>

Coef2 ==
    <<     -15,     143,    -412,     840,   -1442,    2239,   -3249,    4495,
         -6005,    7810,   -9950,   12478,  -15461,   18995,  -23214,   28317,
        -34614,   42603,  -53156,   67921,  -90446,  129966, -220377,  666830,
        666830, -220377,  129966,  -90446,   67921,  -53156,   42603,  -34614,
         28317,  -23214,   18995,  -15461,   12478,   -9950,    7810,   -6005,
          4495,   -3249,    2239,   -1442,     840,    -412,     143,     -15 >>

Coef3 ==
    <<      -3,      69,    -234,     507,    -901,    1429,   -2104,    2942,
         -3961,    5182,   -6633,    8348,  -10372,   12765,  -15617,   19052,
        -23267,   28573,  -35502,   45037,  -59221,   83072, -133103,  313926,
        943797, -187549,  102636,  -69383,   51345,  -39853,   31788,  -25758,
         21047,  -17251,   14127,  -11518,    9318,   -7455,    5877,   -4545,
          3427,   -2501,    1747,   -1147,     688,    -356,     139,     -24 >>

\* r[i] * c[i] + ... + r[47] * c[47]
RECURSIVE Fir(_, _, _)
Fir(r, c, i) ==
    IF i >= NTAPS THEN 0
    ELSE (IF r[i] = 0 THEN 0 ELSE Mul(r[i], c[i + 1])) + Fir(r, c, i + 1)

\* the history after "for (i = 0; i < 47; ++i) r[i] = r[i + 1]"
Shift(r) == [i \in 0..(NTAPS - 1) |-> IF i < NTAPS - 1 THEN r[i + 1] ELSE r[i]]

\* the four phases with phase 0 taken at the centre tap
PhasesCentred(r0, x) ==
    LET r == [r0 EXCEPT ![NTAPS - 1] = x]
    IN  <<r[23], Fir(r, Coef1, 0), Fir(r, Coef2, 0), Fir(r, Coef3, 0)>>

\* u[0..3] of one step: r[47] = x, then the four phases
Phases(r0, x) ==
    LET r == [r0 EXCEPT ![NTAPS - 1] = x]
    IN  <<r[NTAPS - 1], Fir(r, Coef1, 0), Fir(r, Coef2, 0), Fir(r, Coef3, 0)>>

\* max (max (|u0|, |u1|), max (|u2|, |u3|))
PeakOf(ph) == Max(Max(Abs(ph[1]), Abs(ph[2])), Max(Abs(ph[3]), Abs(ph[4])))

\* Upsampler::init
UpsamplerInit(nchan) ==
    [nchan |-> nchan,
     z |-> [c \in 0..(nchan - 1) |-> [j \in 0..(NTAPS - 1) |-> 0]]]

\* Upsampler::process_one: the upsampler afterwards
ProcessOne(up, chn, x) ==
    [up EXCEPT !.z[chn] = Shift([up.z[chn] EXCEPT ![NTAPS - 1] = x])]

\* Upsampler::get_latency
UpsLatency == 23

-----------------------------------------------------------------------------
(* Upsampler driven alone: an impulse at step 0, zeros afterwards            *)

MaxSteps == 50
UpsAmps  == {One, -One, One \div 2, One + One, (3 * One) \div 4}

UpsInit ==
    /\ \E n \in 1..2 : \E c \in 0..(n - 1) :
          u = UpsamplerInit(n) /\ uchn = c
    /\ uin = <<>>
    /\ uph = <<>>
    /\ uret = <<>>
    /\ HistIdle
    /\ EngIdle
    /\ HostIdle

UpsStep ==
    /\ Len(uin) < MaxSteps
    /\ \E x \in (IF Len(uin) = 0 THEN UpsAmps ELSE {0}) :
          /\ u' = ProcessOne(u, uchn, x)
          /\ uin' = Append(uin, x)
          /\ uph' = Append(uph, Phases(u.z[uchn], x))
          /\ uret' = Append(uret, PeakOf(Phases(u.z[uchn], x)))
    /\ UNCHANGED <<uchn, histVars, engVars, host>>

UpsNext == UpsStep

SpecUps == UpsInit /\ [][UpsNext]_vars

\* step k (from 0) is entry k + 1 of the logs
RetAt(k) == uret[k + 1]

\* C9 as claimed: the largest value returned over all steps is the one
\* returned at step 23, and phase 0 equals the raw input at every step.
C9_MaxAtLatency ==
    Len(uret) > UpsLatency =>
        /\ \A k \in 0..(Len(uret) - 1) : RetAt(k) <= RetAt(UpsLatency)
        /\ \A k \in 1..Len(uph) : uph[k][1] = uin[k]

\* C9 amended: phase 0 passes the raw input undelayed, so the impulse itself
\* is returned at step 0 and is the largest value returned; over the later
\* steps the largest value returned is that of step 23, returned again at
\* step 24; phase 0 equals the raw input at every step.
C9_MaxAfterImpulse ==
    /\ \A k \in 1..Len(uph) : uph[k][1] = uin[k]
    /\ Len(uret) >= 1 => RetAt(0) = Abs(uin[1])
    /\ \A k \in 0..(Len(uret) - 1) : RetAt(k) <= RetAt(0)
    /\ Len(uret) > UpsLatency =>
          /\ \A k \in 1..(Len(uret) - 1) : RetAt(k) <= RetAt(UpsLatency)
          /\ RetAt(UpsLatency) > 0
          /\ RetAt(UpsLatency) < RetAt(0)
    /\ Len(uret) > UpsLatency + 1 => RetAt(UpsLatency + 1) = RetAt(UpsLatency)

\* C9 witness: the impulse has passed through the whole history.
C9_Witness ==
    /\ Len(uret) = MaxSteps
    /\ uin[1] = One
    /\ RetAt(0) = One
    /\ RetAt(UpsLatency) = Coef3[25]
    /\ RetAt(MaxSteps - 1) = 0

-----------------------------------------------------------------------------
(* Peaklim                                                                  *)

\* declared in peaklim.h
MAXCHAN == 64

\* _g0, _g1 and _dg carry eight more fraction bits than the samples, so that
\* the division of _dg by _div1 * _div2 (64, 128 or 256) loses nothing, as it
\* loses nothing in float: a gain v is the integer floor(v * GOne).
GHalf == 2^14
GOne  == GHalf * GHalf

\* g * x of a gain and a sample: floor(g * x / GOne), on 14-bit limbs
MulGain(g, x) ==
    LET gh == g \div GHalf
        gl == g % GHalf
        xh == x \div GHalf
        xl == x % GHalf
    IN  gh * xh + ((gh * xl + gl * xh + ((gl * xl) \div GHalf)) \div GHalf)

\* 0.0f history of one channel
ZeroTaps == [j \in 0..(NTAPS - 1) |-> 0]

\* powf (10.0f, 0.05f * v) for the dB values the model uses
DbToCoef(v) ==
    CASE v = -10 -> 331588
      [] v = -6  -> 525532
      [] v = 0   -> One
      [] v = 6   -> 2092184
      [] v = 10  -> 3315888

\* _div1 of Peaklim::init
Div1(fsamp) == IF fsamp > 130000 THEN 32 ELSE IF fsamp > 65000 THEN 16 ELSE 8

\* the float 1.2e-3f is F32Coef * 2^-33, a little above 0.0012
F32Coef == 10307922
F32Limb == 4096

RECURSIVE BitLen(_)
BitLen(x) == IF x = 0 THEN 0 ELSE 1 + BitLen(x \div 2)

RECURSIVE Pow2(_)
Pow2(n) == IF n = 0 THEN 1 ELSE 2 * Pow2(n - 1)

\* the float product 1.2e-3f * _fsamp, for fsamp below 2^19: [m, e] stands
\* for m * 2^(e - 33), m being the exact product F32Coef * fsamp (kept as
\* hi * 2^12 + lo) less its e lowest bits, rounded to the 24 bits of a
\* float, to nearest and ties to even
F32Scale(fsamp) ==
    LET Rounded(q, up, e) == [m |-> IF up THEN q + 1 ELSE q, e |-> e]
        Nearest(q, r, half, sticky, e) ==
            Rounded(q, r > half \/ (r = half /\ (sticky \/ q % 2 = 1)), e)
        Drop(hi, lo, d) ==
            IF d <= 0 THEN Rounded(hi * F32Limb + lo, FALSE, 0)
            ELSE IF d <= 12
            THEN Nearest(hi * Pow2(12 - d) + lo \div Pow2(d), lo % Pow2(d),
                         Pow2(d - 1), FALSE, d)
            ELSE Nearest(hi \div Pow2(d - 12), hi % Pow2(d - 12),
                         Pow2(d - 13), lo > 0, d)
        Parts(hi, lo) == Drop(hi, lo, BitLen(hi) - 12)
        Limbs(ch, low) == Parts(fsamp * ch + low \div F32Limb, low % F32Limb)
    IN  Limbs(F32Coef \div F32Limb, fsamp * (F32Coef % F32Limb))

\* k1 = (int)(ceilf (1.2e-3f * _fsamp / _div1)); the division by _div1, a
\* power of two, is exact
K1(fsamp) ==
    LET Ceil(q, den) == (q + den - 1) \div den
        Whole(sc) ==
            IF sc.m = 0 THEN 0
            ELSE IF 33 - sc.e > 25 THEN 1
            ELSE Ceil(sc.m, Pow2(33 - sc.e) * Div1(fsamp))
    IN  Whole(F32Scale(fsamp))

\* the ring size as need + 4 frames, which no _div1 divides
DsizeUneven(d, need) == need + 4

\* the ring size as the smallest power of two that holds need frames
RECURSIVE DsizeTight(_, _)
DsizeTight(d, need) ==
    IF d < need THEN DsizeTight(2 * d, need)
    ELSE IF d \div 2 >= need THEN DsizeTight(d \div 2, need)
    ELSE d

\* for (_dsize = 64; _dsize < _delay + _div1; _dsize *= 2);
RECURSIVE Dsize(_, _)
Dsize(d, need) == IF d < need THEN Dsize(2 * d, need) ELSE d

\* Peaklim::Peaklim: the members the constructor sets.  _z is not set by the
\* constructor nor by init; it is read only while _truepeak is set, which
\* set_truepeak does after zeroing it.
PeaklimNew ==
    [fsamp |-> 0, nchan |-> 0, rstat |-> FALSE, peak |-> 0,
     gmax |-> One, gmin |-> One, truepeak |-> FALSE,
     z |-> [c \in 0..1 |-> ZeroTaps]]

\* init that returns at once when the engine has nchan0 channels already
PeaklimInitKeep(e, fsamp, nchan0) ==
    LET nchan == IF nchan0 > MAXCHAN THEN MAXCHAN ELSE nchan0
        div1  == Div1(fsamp)
        k1    == K1(fsamp)
        delay == k1 * div1
        dsize == Dsize(64, delay + div1)
        w1    == FixDiv(10, delay)
    IN  IF e.nchan = nchan THEN e
        ELSE
        [fsamp |-> fsamp, nchan |-> nchan, div1 |-> div1, div2 |-> 8,
         delay |-> delay, dsize |-> dsize, dmask |-> dsize - 1, delri |-> 0,
         dbuff |-> [c \in 0..(nchan - 1) |-> [i \in 0..(dsize - 1) |-> 0]],
         hist1 |-> HistminInit(k1 + 1), hist2 |-> HistminInit(12),
         c1 |-> div1, c2 |-> 8, m1 |-> 0, m2 |-> 0,
         wlf |-> FixDiv(3140, fsamp), w1 |-> w1, w2 |-> w1 \div 8,
         w3 |-> FixDiv(100, fsamp),
         zlf |-> [c \in 0..(nchan - 1) |-> 0],
         z1 |-> One, z2 |-> One, z3 |-> One,
         gt |-> One, g0 |-> GOne, g1 |-> GOne, dg |-> 0,
         gmax |-> One, gmin |-> One,
         peak |-> e.peak, rstat |-> e.rstat, truepeak |-> e.truepeak, z |-> e.z]

\* Peaklim::init on an engine e (fini, then every member but _peak, _rstat,
\* _truepeak and _z)
PeaklimInit(e, fsamp, nchan0) ==
    LET nchan == IF nchan0 > MAXCHAN THEN MAXCHAN ELSE nchan0
        div1  == Div1(fsamp)
        k1    == K1(fsamp)
        delay == k1 * div1
        dsize == Dsize(64, delay + div1)
        w1    == FixDiv(10, delay)
    IN  [fsamp |-> fsamp, nchan |-> nchan, div1 |-> div1, div2 |-> 8,
         delay |-> delay, dsize |-> dsize, dmask |-> dsize - 1, delri |-> 0,
         dbuff |-> [c \in 0..(nchan - 1) |-> [i \in 0..(dsize - 1) |-> 0]],
         hist1 |-> HistminInit(k1 + 1), hist2 |-> HistminInit(12),
         c1 |-> div1, c2 |-> 8, m1 |-> 0, m2 |-> 0,
         wlf |-> FixDiv(3140, fsamp), w1 |-> w1, w2 |-> w1 \div 8,
         w3 |-> FixDiv(100, fsamp),
         zlf |-> [c \in 0..(nchan - 1) |-> 0],
         z1 |-> One, z2 |-> One, z3 |-> One,
         gt |-> One, g0 |-> GOne, g1 |-> GOne, dg |-> 0,
         gmax |-> One, gmin |-> One,
         peak |-> e.peak, rstat |-> e.rstat, truepeak |-> e.truepeak, z |-> e.z]

\* Peaklim::set_inpgain
SetInpgain(e, v) == [e EXCEPT !.g1 = DbToCoef(v) * (GOne \div One)]

\* Peaklim::set_threshold
SetThreshold(e, v) == [e EXCEPT !.gt = DbToCoef(-v)]

\* Peaklim::set_release, v in milliseconds (the source takes seconds):
\* clamped to [1e-3, 1] s, then _w3 = 1 / (v * _fsamp)
SetRelease(e, ms) ==
    LET v == IF ms > 1000 THEN 1000 ELSE IF ms < 1 THEN 1 ELSE ms
    IN  [e EXCEPT !.w3 = FixDiv(1000, v * e.fsamp)]

\* set_truepeak without the early return
SetTruepeakAlways(e, v) ==
    [e EXCEPT !.z = [c \in DOMAIN e.z |->
                        IF c < e.nchan THEN ZeroTaps ELSE e.z[c]],
              !.truepeak = v]

\* Peaklim::set_truepeak
SetTruepeak(e, v) ==
    IF e.truepeak = v THEN e
    ELSE [e EXCEPT !.z = [c \in DOMAIN e.z |->
                             IF c < e.nchan THEN ZeroTaps ELSE e.z[c]],
                   !.truepeak = v]

\* Peaklim::get_latency, declared in peaklim.h
GetLatency(e) == e.delay + (IF e.truepeak THEN UpsLatency ELSE 0)

\* Peaklim::get_stats, declared in peaklim.h: the engine afterwards
GetStats(e) == [e EXCEPT !.rstat = TRUE]

\* the 1e-20f added to the low-pass state, in units of 1/One
Bias == 0

\* the sample loop with the interpolated peak taken whatever _truepeak is
RECURSIVE SampleLoopTruePeak(_, _, _, _, _, _, _, _)
SampleLoopTruePeak(c, i, n, e, j, k, wi, inp) ==
    LET Store(x, z, xp) ==
            [g |-> c.g + e.dg, z |-> z,
             m1 |-> IF xp > c.m1 THEN xp ELSE c.m1,
             m2 |-> IF Abs(z) > c.m2 THEN Abs(z) ELSE c.m2,
             buf |-> [c.buf EXCEPT ![wi + i] = x],
             r |-> Shift([c.r EXCEPT ![NTAPS - 1] = x]),
             gs |-> Append(c.gs, c.g)]
        Sample(x) ==
            Store(x, c.z + Mul(e.wlf, x - c.z) + Bias, PeakOf(Phases(c.r, x)))
    IN  IF i >= n THEN c
        ELSE SampleLoopTruePeak(Sample(MulGain(c.g, inp[k + i + 1][j + 1])),
                                i + 1, n, e, j, k, wi, inp)

\* Peaklim::process, the sample loop of one channel over one span:
\* c = [g, z, m1, m2, buf, r, gs].  Sample (x) is the body of the loop for
\* the scaled sample x, Store (x, z, xp) its assignments, z being the
\* low-pass state and xp the peak of the sample.
RECURSIVE SampleLoop(_, _, _, _, _, _, _, _)
SampleLoop(c, i, n, e, j, k, wi, inp) ==
    LET Store(x, z, xp) ==
            [g |-> c.g + e.dg, z |-> z,
             m1 |-> IF xp > c.m1 THEN xp ELSE c.m1,
             m2 |-> IF Abs(z) > c.m2 THEN Abs(z) ELSE c.m2,
             buf |-> [c.buf EXCEPT ![wi + i] = x],
             r |-> IF e.truepeak
                   THEN Shift([c.r EXCEPT ![NTAPS - 1] = x]) ELSE c.r,
             gs |-> Append(c.gs, c.g)]
        Sample(x) ==
            Store(x, c.z + Mul(e.wlf, x - c.z) + Bias,
                  IF e.truepeak THEN PeakOf(Phases(c.r, x)) ELSE Abs(x))
    IN  IF i >= n THEN c
        ELSE SampleLoop(Sample(MulGain(c.g, inp[k + i + 1][j + 1])),
                        i + 1, n, e, j, k, wi, inp)

\* the channel loop with g carried on from one channel to the next
RECURSIVE ChannelLoopCarry(_, _, _, _, _, _)
ChannelLoopCarry(a, j, n, k, wi, inp) ==
    LET Merge(c) ==
            [e |-> [a.e EXCEPT !.zlf[j] = c.z, !.dbuff[j] = c.buf, !.z[j] = c.r],
             g |-> c.g, m1 |-> c.m1, m2 |-> c.m2,
             gs |-> IF j = 0 THEN c.gs ELSE a.gs]
    IN  IF j >= a.e.nchan THEN a
        ELSE ChannelLoopCarry(
                 Merge(SampleLoop(
                           [g |-> a.g, z |-> a.e.zlf[j], m1 |-> a.m1,
                            m2 |-> a.m2, buf |-> a.e.dbuff[j], r |-> a.e.z[j],
                            gs |-> <<>>],
                           0, n, a.e, j, k, wi, inp)),
                 j + 1, n, k, wi, inp)

\* the channel loop of one span: a = [e, g, m1, m2, gs].  Merge (c) takes
\* over what the sample loop of channel j leaves.
RECURSIVE ChannelLoop(_, _, _, _, _, _)
ChannelLoop(a, j, n, k, wi, inp) ==
    LET Merge(c) ==
            [e |-> [a.e EXCEPT !.zlf[j] = c.z, !.dbuff[j] = c.buf, !.z[j] = c.r],
             g |-> c.g, m1 |-> c.m1, m2 |-> c.m2,
             gs |-> IF j = 0 THEN c.gs ELSE a.gs]
    IN  IF j >= a.e.nchan THEN a
        ELSE ChannelLoop(
                 Merge(SampleLoop(
                           [g |-> a.e.g0, z |-> a.e.zlf[j], m1 |-> a.m1,
                            m2 |-> a.m2, buf |-> a.e.dbuff[j], r |-> a.e.z[j],
                            gs |-> <<>>],
                           0, n, a.e, j, k, wi, inp)),
                 j + 1, n, k, wi, inp)

\* the super-chunk boundary with _dg divided by twice _div1 * _div2
SuperChunkSlow(b) ==
    LET Ramp(h2, hs, dg) ==
            [e |-> [b.e EXCEPT !.hist2 = hs, !.c2 = b.e.div2,
                               !.g0 = IF dg = 0 THEN b.e.g1 ELSE b.e.g0,
                               !.dg = IF dg = 0 THEN 0
                                      ELSE dg \div (2 * b.e.div1 * b.e.div2)],
             m2 |-> 0, h2 |-> Vmin(hs), h2w |-> Append(b.h2w, h2)]
        Write(h2) == Ramp(h2, HistminWrite(b.e.hist2, h2), b.e.g1 - b.e.g0)
        Target(m2) == Write(IF m2 > One THEN Recip(m2) ELSE One)
    IN  Target(Mul(b.m2, b.e.gt))

\* the super-chunk boundary (--_c2 == 0): b = [e, m2, h2, h2w]; m2 is
\* m2 * _gt, h2 the target, hs _hist2 after the write and dg = _g1 - _g0
SuperChunk(b) ==
    LET Ramp(h2, hs, dg) ==
            \* fabsf (_dg) < 1e-9f: 1e-9 is below the resolution 1/GOne, so dg = 0
            [e |-> [b.e EXCEPT !.hist2 = hs, !.c2 = b.e.div2,
                               !.g0 = IF dg = 0 THEN b.e.g1 ELSE b.e.g0,
                               !.dg = IF dg = 0 THEN 0
                                      ELSE dg \div (b.e.div1 * b.e.div2)],
             m2 |-> 0, h2 |-> Vmin(hs), h2w |-> Append(b.h2w, h2)]
        Write(h2) == Ramp(h2, HistminWrite(b.e.hist2, h2), b.e.g1 - b.e.g0)
        Target(m2) == Write(IF m2 > One THEN Recip(m2) ELSE One)
    IN  Target(Mul(b.m2, b.e.gt))

\* the coarse-chunk boundary with m1 carried on to the next chunk
ChunkKeepPeak(b) ==
    LET Rest(e1) == [e |-> e1, m2 |-> b.m2, h2 |-> b.h2, h2w |-> b.h2w]
        Leave(m1, h1, hs, sc) ==
            [e |-> sc.e, m1 |-> b.m1, m2 |-> sc.m2, h1 |-> Vmin(hs),
             h2 |-> sc.h2,
             pk |-> IF m1 > b.pk THEN m1 ELSE b.pk,
             h1w |-> Append(b.h1w, h1), h2w |-> sc.h2w,
             pks |-> Append(b.pks, m1)]
        Count(m1, h1, hs, e1) ==
            Leave(m1, h1, hs,
                  IF e1.c2 = 0 THEN SuperChunk(Rest(e1)) ELSE Rest(e1))
        Written1(m1, h1, hs) ==
            Count(m1, h1, hs,
                  [b.e EXCEPT !.hist1 = hs, !.c1 = b.e.div1, !.c2 = @ - 1])
        Write(m1, h1) == Written1(m1, h1, HistminWrite(b.e.hist1, h1))
        Target(m1) == Write(m1, IF m1 > One THEN Recip(m1) ELSE One)
    IN  Target(Mul(b.m1, b.e.gt))

\* the coarse-chunk boundary (_c1 == 0): b = [e, m1, m2, h1, h2, pk, h1w, h2w,
\* pks]; m1 is m1 * _gt, h1 the target, hs _hist1 after the write, e1 the
\* engine after --_c2 and sc what the super-chunk boundary leaves
Chunk(b) ==
    LET Rest(e1) == [e |-> e1, m2 |-> b.m2, h2 |-> b.h2, h2w |-> b.h2w]
        Leave(m1, h1, hs, sc) ==
            [e |-> sc.e, m1 |-> 0, m2 |-> sc.m2, h1 |-> Vmin(hs), h2 |-> sc.h2,
             pk |-> IF m1 > b.pk THEN m1 ELSE b.pk,
             h1w |-> Append(b.h1w, h1), h2w |-> sc.h2w,
             pks |-> Append(b.pks, m1)]
        Count(m1, h1, hs, e1) ==
            Leave(m1, h1, hs,
                  IF e1.c2 = 0 THEN SuperChunk(Rest(e1)) ELSE Rest(e1))
        Written1(m1, h1, hs) ==
            Count(m1, h1, hs,
                  [b.e EXCEPT !.hist1 = hs, !.c1 = b.e.div1, !.c2 = @ - 1])
        Write(m1, h1) == Written1(m1, h1, HistminWrite(b.e.hist1, h1))
        Target(m1) == Write(m1, IF m1 > One THEN Recip(m1) ELSE One)
    IN  Target(Mul(b.m1, b.e.gt))

\* the envelope and output loop of one span: v = [z1, z2, z3, t0, t1, out, z3s]
RECURSIVE EnvLoop(_, _, _, _, _, _, _)
EnvLoop(v, i, n, e, h1, h2, ri) ==
    LET Emit(z1, z2, z3) ==
            [z1 |-> z1, z2 |-> z2, z3 |-> z3,
             t0 |-> IF z3 < v.t0 THEN z3 ELSE v.t0,
             t1 |-> IF z3 > v.t1 THEN z3 ELSE v.t1,
             out |-> Append(v.out,
                        [c \in 1..e.nchan |-> Mul(z3, e.dbuff[c - 1][ri + i])]),
             z3s |-> Append(v.z3s, z3)]
        Follow(z1, z2, z) ==
            Emit(z1, z2, IF z < v.z3 THEN v.z3 + Mul(e.w1, z - v.z3)
                         ELSE v.z3 + Mul(e.w3, z - v.z3))
        Smooth(z1, z2) == Follow(z1, z2, IF z2 < z1 THEN z2 ELSE z1)
    IN  IF i >= n THEN v
        ELSE EnvLoop(Smooth(v.z1 + Mul(e.w1, h1 - v.z1),
                            v.z2 + Mul(e.w2, h2 - v.z2)),
                     i + 1, n, e, h1, h2, ri)

\* the while (nframes) loop: s = the engine and the locals of process.
\* Span (n) is one pass of n frames: a is what the channel loop leaves, b
\* what the chunk boundary leaves, v what the envelope loop leaves.
RECURSIVE SpanLoop(_, _)
SpanLoop(s, inp) ==
    LET Advance(n, a, b, v) ==
            [e |-> b.e, ri |-> (s.ri + n) % b.e.dsize,
             wi |-> (s.wi + n) % b.e.dsize,
             h1 |-> b.h1, h2 |-> b.h2, m1 |-> b.m1, m2 |-> b.m2,
             z1 |-> v.z1, z2 |-> v.z2, z3 |-> v.z3,
             pk |-> b.pk, t0 |-> v.t0, t1 |-> v.t1,
             k |-> s.k + n, nframes |-> s.nframes - n,
             out |-> v.out, z3s |-> v.z3s, gs |-> s.gs \o a.gs,
             h1w |-> b.h1w, h2w |-> b.h2w, pks |-> b.pks]
        Envelope(n, a, b) ==
            Advance(n, a, b,
                    EnvLoop([z1 |-> s.z1, z2 |-> s.z2, z3 |-> s.z3,
                             t0 |-> s.t0, t1 |-> s.t1, out |-> s.out,
                             z3s |-> s.z3s],
                            0, n, b.e, b.h1, b.h2, s.ri))
        Boundary(n, a, b0) ==
            Envelope(n, a, IF b0.e.c1 = 0 THEN Chunk(b0) ELSE b0)
        Count(n, a) ==
            Boundary(n, a,
                     [e |-> [a.e EXCEPT !.g0 = a.g, !.c1 = @ - n],
                      m1 |-> a.m1, m2 |-> a.m2, h1 |-> s.h1, h2 |-> s.h2,
                      pk |-> s.pk, h1w |-> s.h1w, h2w |-> s.h2w, pks |-> s.pks])
        Span(n) ==
            Count(n, ChannelLoop([e |-> s.e, g |-> s.e.g0, m1 |-> s.m1,
                                  m2 |-> s.m2, gs |-> <<>>],
                                 0, n, s.k, s.wi, inp))
    IN  IF s.nframes = 0 THEN s
        ELSE SpanLoop(Span(IF s.e.c1 < s.nframes THEN s.e.c1 ELSE s.nframes),
                      inp)

\* Peaklim::process: [e |-> the engine afterwards, out |-> the output frames,
\* z3s |-> the gain z3 applied to each frame, gs |-> the input gain g applied
\* to each frame, h1w, h2w |-> the targets written to _hist1 and _hist2,
\* pks |-> m1 * _gt at each coarse-chunk boundary]
Process(e, nframes, inp) ==
    LET WriteBack(s) ==
            [e |-> [s.e EXCEPT !.delri = s.ri, !.m1 = s.m1, !.m2 = s.m2,
                               !.z1 = s.z1, !.z2 = s.z2, !.z3 = s.z3,
                               !.peak = s.pk, !.gmin = s.t0, !.gmax = s.t1],
             out |-> s.out, z3s |-> s.z3s, gs |-> s.gs,
             h1w |-> s.h1w, h2w |-> s.h2w, pks |-> s.pks]
    IN  WriteBack(SpanLoop(
                 [e |-> [e EXCEPT !.rstat = FALSE],
                  ri |-> e.delri, wi |-> (e.delri + e.delay) % e.dsize,
                  h1 |-> Vmin(e.hist1), h2 |-> Vmin(e.hist2),
                  m1 |-> e.m1, m2 |-> e.m2,
                  z1 |-> e.z1, z2 |-> e.z2, z3 |-> e.z3,
                  pk |-> IF e.rstat THEN 0 ELSE e.peak,
                  t0 |-> IF e.rstat THEN e.gmax ELSE e.gmin,
                  t1 |-> IF e.rstat THEN e.gmin ELSE e.gmax,
                  k |-> 0, nframes |-> nframes,
                  out |-> <<>>, z3s |-> <<>>, gs |-> <<>>,
                  h1w |-> <<>>, h2w |-> <<>>, pks |-> <<>>],
                 inp))

-----------------------------------------------------------------------------
(* The engine driven as main drives it: init, the setters, then blocks      *)

FsSet     == {8000, 22050}
ChanSet   == {1, 2}
\* frames of a run beyond the delay of the engine
MaxTail   == 24
BlockLens == {8, 13}
MaxOps    == 1
GainSet   == {6}
ThrSet    == {-6}
RelSet    == {1}
Amps      == {One, One + One}
\* the streams: an impulse at frame 0 or 8, a step from frame 0, a tone at
\* half the sample rate from frame 0
Streams   ==
    {[kind |-> "impulse", amp |-> a, pos |-> q] : a \in Amps, q \in {0, 8}}
    \cup {[kind |-> k, amp |-> a, pos |-> 0] : k \in {"step", "alt"}, a \in Amps}

\* sample of channel c (from 0) at frame n (from 0) of the stream sg
In(sg, n, c) ==
    LET x == CASE sg.kind = "impulse" -> IF n = sg.pos THEN sg.amp ELSE 0
               [] sg.kind = "step"    -> IF n >= sg.pos THEN sg.amp ELSE 0
               [] sg.kind = "alt"     -> IF n < sg.pos THEN 0
                                         ELSE IF (n - sg.pos) % 2 = 0
                                              THEN sg.amp ELSE -sg.amp
    IN  IF c = 0 THEN x
        ELSE IF sg.kind = "impulse" THEN 0 ELSE -(x \div 2)

\* the interleaved buffer of n frames starting at frame first
Block(sg, first, n, nchan) ==
    [k \in 1..n |-> [c \in 1..nchan |-> In(sg, first + k - 1, c - 1)]]

EmptyTrace ==
    [out |-> <<>>, z3s |-> <<>>, gs |-> <<>>, h1w |-> <<>>, h2w |-> <<>>,
     pks |-> <<>>]

NoStats == [armed |-> FALSE, mark |-> 0, pmark |-> 0, gmax |-> 0, gmin |-> 0]

\* main: "Peaklim p", p.init (nfo.samplerate, nfo.channels) and
\* p.set_truepeak (true_peak); the run reads the stream in blocks of the
\* lengths lens and goes tail frames beyond the delay of the engine
EngStart(fss, chans, tps, streams, lens, tail) ==
    /\ \E fs \in fss, C \in chans, tp \in tps :
          p = SetTruepeak(PeaklimInit(PeaklimNew, fs, C), tp)
    /\ p2 = p
    /\ sig \in streams
    /\ t = 0
    /\ t0 = 0
    /\ tr = EmptyTrace
    /\ last = "init"
    /\ pre = <<>>
    /\ ops = 0
    /\ same = TRUE
    /\ dtOn = FALSE
    /\ dtOff = FALSE
    /\ tpu = FALSE
    /\ lim = p.delay + tail
    /\ blens = lens
    /\ sr = NoStats
    /\ HistIdle
    /\ UpsIdle
    /\ HostIdle

\* a setter, called as main calls it, between init and the first block, with
\* a value that is not the one in force: both engines go through f
Setter(name, f(_)) ==
    /\ t = t0
    /\ f(p) # p
    /\ p' = f(p)
    /\ p2' = f(p2)
    /\ last' = name
    /\ pre' = p
    /\ UNCHANGED <<sig, t, t0, tr, ops, same, dtOn, dtOff, tpu, lim, blens, sr,
                   histVars, upsVars, host>>

SetInpgainCall ==
    \E v \in GainSet : LET f(e) == SetInpgain(e, v) IN Setter("set_inpgain", f)

SetThresholdCall ==
    \E v \in ThrSet : LET f(e) == SetThreshold(e, v) IN Setter("set_threshold", f)

SetReleaseCall ==
    \E v \in RelSet : LET f(e) == SetRelease(e, v) IN Setter("set_release", f)

\* set_inpgain (v) between two blocks, at any time, with a value that is
\* not the one in force
SetInpgainLate ==
    /\ \E v \in GainSet :
          /\ SetInpgain(p, v) # p
          /\ p' = SetInpgain(p, v)
          /\ p2' = SetInpgain(p2, v)
    /\ last' = "set_inpgain"
    /\ pre' = p
    /\ UNCHANGED <<sig, t, t0, tr, ops, same, dtOn, dtOff, tpu, lim, blens, sr,
                   histVars, upsVars, host>>

\* set_truepeak (v), at any time, on both engines
SetTruepeakCall ==
    /\ ops < MaxOps
    /\ ops' = ops + 1
    /\ \E v \in BOOLEAN :
          /\ p' = SetTruepeak(p, v)
          /\ p2' = SetTruepeak(p2, v)
    /\ last' = "set_truepeak"
    /\ pre' = p
    /\ UNCHANGED <<sig, t, t0, tr, same, dtOn, dtOff, tpu, lim, blens, sr,
                   histVars, upsVars, host>>

\* set_truepeak (!current) called twice in a row, on p alone
ToggleTwice ==
    /\ ops < MaxOps
    /\ ops' = ops + 1
    /\ p' = SetTruepeak(SetTruepeak(p, ~p.truepeak), p.truepeak)
    /\ dtOn' = (dtOn \/ p.truepeak)
    /\ dtOff' = (dtOff \/ ~p.truepeak)
    /\ last' = "toggle_twice"
    /\ pre' = p
    /\ UNCHANGED <<p2, sig, t, t0, tr, same, tpu, lim, blens, sr, histVars, upsVars,
                   host>>

GetStatsCall ==
    /\ ops < MaxOps
    /\ ops' = ops + 1
    /\ p' = GetStats(p)
    /\ p2' = GetStats(p2)
    /\ sr' = [armed |-> TRUE, mark |-> Len(tr.z3s), pmark |-> Len(tr.pks),
              gmax |-> p.gmax, gmin |-> p.gmin]
    /\ last' = "get_stats"
    /\ pre' = p
    /\ UNCHANGED <<sig, t, t0, tr, same, dtOn, dtOff, tpu, lim, blens, histVars,
                   upsVars, host>>

\* p.init (fs, C) with the sample rate and channel count p already has
ReinitCall ==
    /\ ops < MaxOps
    /\ t > t0
    /\ ops' = ops + 1
    /\ p' = PeaklimInit(p, p.fsamp, p.nchan)
    /\ p2' = PeaklimInit(p2, p2.fsamp, p2.nchan)
    /\ t0' = t
    /\ tr' = EmptyTrace
    /\ sr' = NoStats
    /\ tpu' = FALSE
    /\ last' = "init"
    /\ pre' = p
    /\ UNCHANGED <<sig, t, same, dtOn, dtOff, lim, blens, histVars, upsVars, host>>

ProcessCall ==
    /\ \E n \in blens :
          /\ t + n <= lim
          /\ LET Done(r, rq) ==
                     /\ p' = r.e
                     /\ p2' = rq.e
                     /\ same' = (same /\ r.out = rq.out)
                     /\ tr' = [out |-> tr.out \o r.out, z3s |-> tr.z3s \o r.z3s,
                               gs |-> tr.gs \o r.gs, h1w |-> tr.h1w \o r.h1w,
                               h2w |-> tr.h2w \o r.h2w, pks |-> tr.pks \o r.pks]
                 Both(blk, r) ==
                     Done(r, IF p2 = p THEN r ELSE Process(p2, n, blk))
                 Run(blk) == Both(blk, Process(p, n, blk))
             IN  Run(Block(sig, t, n, p.nchan))
          /\ t' = t + n
    /\ tpu' = (tpu \/ p.truepeak)
    /\ last' = "process"
    /\ pre' = <<>>
    /\ UNCHANGED <<sig, t0, ops, dtOn, dtOff, lim, blens, sr, histVars, upsVars,
                   host>>

\* digital-peak operation: the setters, then blocks
EngInit == EngStart(FsSet, ChanSet, {FALSE}, Streams, BlockLens, MaxTail)

Next ==
    \/ ProcessCall
    \/ SetInpgainCall
    \/ SetThresholdCall
    \/ SetReleaseCall

Spec == EngInit /\ [][Next]_vars

\* get_stats and a second init between the blocks
CtlStreams == {sg \in Streams : sg.amp > One /\ sg.kind # "alt"}

CtlInit == EngStart({8000}, ChanSet, {FALSE}, CtlStreams, BlockLens, MaxTail)

CtlNext ==
    \/ ProcessCall
    \/ SetInpgainCall
    \/ SetThresholdCall
    \/ SetReleaseCall
    \/ GetStatsCall
    \/ ReinitCall

SpecCtl == CtlInit /\ [][CtlNext]_vars

\* a run through the first super-chunk and into the ramp of the input gain
\* that starts at its end
RampStreams == {sg \in Streams : sg.amp > One}
RampLens == {13, 27, 40}
RampTail == 80

RampInit == EngStart({8000}, ChanSet, {FALSE}, RampStreams, RampLens, RampTail)

RampNext ==
    \/ ProcessCall
    \/ SetInpgainCall
    \/ SetThresholdCall

SpecRamp == RampInit /\ [][RampNext]_vars

\* true-peak operation: set_truepeak, the double toggle, blocks
TpStreams == {sg \in Streams : sg.pos = 0 /\ sg.kind # "impulse" /\ (sg.amp = One \/ sg.kind = "step")}
\* frames beyond the delay: one super-chunk of 64 frames is gone through
TpTail == 48

\* blocks of whole coarse chunks
TpLens == {16, 24}

TpInit == EngStart({8000}, {1}, BOOLEAN, TpStreams, TpLens, TpTail)

TpNext ==
    \/ ProcessCall
    \/ SetTruepeakCall
    \/ ToggleTwice

SpecTP == TpInit /\ [][TpNext]_vars

\* the input gain changed anywhere in a run of three super-chunks
GainStreams == {sg \in Streams : sg.kind = "step" /\ sg.amp > One}
GainLens == {13, 27, 40}
GainTail == 180
GainInit == EngStart({8000}, ChanSet, {FALSE}, GainStreams, GainLens, GainTail)

GainNext ==
    \/ ProcessCall
    \/ SetInpgainLate

SpecGain == GainInit /\ [][GainNext]_vars

\* init at the sample rates of MaxKHz kHz and less that are a multiple of
\* 1 kHz, at the usual rates of audio files, and at the rates next to the
\* two limits of _div1
MaxKHz == 200
CfgFs ==
    {1000 * k : k \in 1..MaxKHz}
        \cup {11025, 22050, 44100, 88200, 176400, 65001, 130001}

\* "Peaklim p" of main: the engine as the constructor leaves it
CfgInit ==
    /\ p = PeaklimNew
    /\ p2 = <<>> /\ sig = <<>> /\ t = 0 /\ t0 = 0 /\ tr = <<>>
    /\ last = "" /\ pre = <<>> /\ ops = 0 /\ same = TRUE /\ dtOn = FALSE
    /\ dtOff = FALSE /\ tpu = FALSE /\ lim = 0 /\ blens = {} /\ sr = <<>>
    /\ HistIdle
    /\ UpsIdle
    /\ HostIdle

\* p.init (fs, C), called once on the engine just constructed
InitCall ==
    /\ last = ""
    /\ \E fs \in CfgFs, C \in ChanSet : p' = PeaklimInit(p, fs, C)
    /\ last' = "init"
    /\ pre' = p
    /\ UNCHANGED <<p2, sig, t, t0, tr, ops, same, dtOn, dtOff, tpu, lim, blens,
                   sr, histVars, upsVars, host>>

CfgNext == InitCall

SpecCfg == CfgInit /\ [][CfgNext]_vars

\* a sample rate of 6666 Hz or less: k1 = 1, _delay = 8 and _w1 = 10 / 8
LowFs == {4000}
LowStreams == {sg \in Streams : sg.amp > One}
LowInit == EngStart(LowFs, {1}, {FALSE}, LowStreams, BlockLens, MaxTail)

LowNext ==
    \/ ProcessCall
    \/ SetInpgainCall
    \/ SetThresholdCall
    \/ SetReleaseCall

SpecLow == LowInit /\ [][LowNext]_vars

-----------------------------------------------------------------------------
(* The host: main of sound-gambit.cc from "latency = p.get_latency ()" on.  *)
(* The frames the engine puts out are numbered from 0 in the order process  *)
(* produces them; the destination is the list of the runs <<first, count>>  *)
(* of engine frames written to it.                                          *)

BLOCKSIZE == 4096

\* the sample rates and the source lengths the host is run on
HostFs == {8000, 48000, 192000}
MaxSrc == 8500

\* p.get_latency () after main has configured p
HostLatencies ==
    {GetLatency(SetTruepeak(PeaklimInit(PeaklimNew, fs, 1), tp)) :
        fs \in HostFs, tp \in BOOLEAN}

HostInit ==
    /\ \E N \in 0..MaxSrc, L \in HostLatencies :
          host = [pc |-> "loop", src |-> N, rem |-> N, L |-> L, latency |-> L,
                  eng |-> 0, dst |-> <<>>, rv |-> 0, short |-> FALSE]
    /\ HistIdle
    /\ UpsIdle
    /\ EngIdle

\* sf_writef_float (outfile, &out[..], n) of the engine frames first ..
\* first + n - 1: all n frames are written, or fewer and main goes to end
\* with rv = 1.  hs is the host after the rest of the iteration; short
\* records that a write came back with fewer frames than asked for.
HostWrite(hs, first, n) ==
    \/ host' = [hs EXCEPT !.dst = Append(@, <<first, n>>)]
    \/ \E w \in {0, n - 1} :
          host' = [hs EXCEPT !.dst = IF w > 0 THEN Append(@, <<first, w>>) ELSE @,
                             !.rv = 1, !.pc = "done", !.short = TRUE]

\* one iteration of the do .. while (1) loop
HostLoop ==
    /\ host.pc = "loop"
    /\ LET n  == IF host.rem < BLOCKSIZE THEN host.rem ELSE BLOCKSIZE
           hp == [host EXCEPT !.rem = @ - n, !.eng = @ + n]
       IN  IF n = 0
           THEN host' = [host EXCEPT !.pc = "flush", !.latency = host.L]
           ELSE IF host.latency > 0
           THEN LET ns == IF n > host.latency THEN n - host.latency ELSE 0
                    hl == [hp EXCEPT !.latency = IF n >= host.latency THEN 0
                                                 ELSE host.latency - n]
                IN  IF ns > 0
                    THEN HostWrite(hl, host.eng + host.latency, ns)
                    ELSE host' = hl
           ELSE HostWrite(hp, host.eng, n)
    /\ UNCHANGED <<histVars, upsVars, engVars>>

\* one iteration of the while (latency > 0) loop, or the end of main
HostFlush ==
    /\ host.pc = "flush"
    /\ IF host.latency > 0
       THEN LET n == IF host.latency > BLOCKSIZE THEN BLOCKSIZE ELSE host.latency
            IN  HostWrite([host EXCEPT !.eng = @ + n, !.latency = @ - n],
                          host.eng, n)
       ELSE host' = [host EXCEPT !.pc = "done"]
    /\ UNCHANGED <<histVars, upsVars, engVars>>

HostNext ==
    \/ HostLoop
    \/ HostFlush

SpecHost == HostInit /\ [][HostNext]_vars

\* the frames of the first i runs of the destination d
RECURSIVE Written(_, _)
Written(d, i) == IF i = 0 THEN 0 ELSE d[i][2] + Written(d, i - 1)

\* C5: for every source length N, N < L included, when main ends with every
\* write complete the destination has exactly N frames and its frame k is
\* engine output frame k + L.
C5_HostAlignment ==
    (host.pc = "done" /\ host.rv = 0) =>
        /\ Written(host.dst, Len(host.dst)) = host.src
        /\ \A i \in 1..Len(host.dst) :
              host.dst[i][1] = host.L + Written(host.dst, i - 1)

-----------------------------------------------------------------------------
(* The host from the start of main: the option loop, the checks of the     *)
(* arguments, the opening of the two files, the auto-gain scan, and then   *)
(* the loops above.                                                         *)

\* The text of an option argument and atof of it: a decimal number, given
\* here in thousandths of the option's unit, "nan", which strtod reads as
\* a NaN, or a text without a leading number, which atof reads as 0.  The
\* conversion to float is exact at this resolution.
NumArg(v) == [k |-> "num", v |-> v]
NanArg == [k |-> "nan", v |-> 0]
TxtArg == [k |-> "txt", v |-> 0]
NoArg == [k |-> "none", v |-> 0]
Atof(a) == [nan |-> a.k = "nan", v |-> IF a.k = "num" THEN a.v ELSE 0]

\* x < c and x > c of a float x: both are false of a NaN
FLess(x, c) == ~x.nan /\ x.v < c
FGreater(x, c) == ~x.nan /\ x.v > c

\* the arguments given to -r (microseconds), -t and -i (thousandths of a dB)
RelArgs == {NumArg(999), NumArg(1000), NumArg(1000000), NumArg(1000001), NanArg}
ThrArgs == {NumArg(-10001), NumArg(-10000), NumArg(0), NumArg(1), NanArg}
GainArgs == {NumArg(-10001), NumArg(30000), NumArg(30001), TxtArg, NanArg}

\* the options of one command line, MaxOpts of them at most; "?" is an
\* option getopt_long does not know
Options ==
    {[o |-> f, arg |-> NoArg] : f \in {"a", "h", "T", "V", "v", "?"}}
        \cup {[o |-> "r", arg |-> a] : a \in RelArgs}
        \cup {[o |-> "t", arg |-> a] : a \in ThrArgs}
        \cup {[o |-> "i", arg |-> a] : a \in GainArgs}
MaxOpts == 2
OptSeqs == UNION {[1..k -> Options] : k \in 0..MaxOpts}

\* the arguments left after the options: <src> <dst>, or fewer than two
FileArgs == {<<>>, <<"-", "-">>, <<"a.wav", "a.wav">>, <<"a.wav", "b.wav">>,
             <<"a.wav", "-">>}

\* the lengths and the sample rates of the source file
MainSrc == {0, 10, 5000}
MainFs == {48000}

\* main up to the option loop: the defaults of the declarations
MainInit ==
    /\ \E os \in OptSeqs, fa \in FileArgs :
          host = [pc |-> "getopt", opts |-> os, optind |-> 0, files |-> fa,
                  release |-> Atof(NumArg(10000)),
                  threshold |-> Atof(NumArg(-1000)),
                  gain |-> Atof(NumArg(0)),
                  auto |-> FALSE, tp |-> FALSE,
                  inOpen |-> FALSE, outOpen |-> FALSE,
                  src |-> 0, rem |-> 0, L |-> 0, latency |-> 0,
                  eng |-> 0, dst |-> <<>>, rv |-> 0, short |-> FALSE]
    /\ HistIdle
    /\ UpsIdle
    /\ EngIdle

\* one iteration of the while (EOF != getopt_long (..)) loop
MainGetopt ==
    /\ host.pc = "getopt"
    /\ host.optind < Len(host.opts)
    /\ LET Case(op, hn) ==
               host' =
                   CASE op.o = "a" -> [hn EXCEPT !.auto = TRUE]
                     [] op.o = "i" -> [hn EXCEPT !.gain = Atof(op.arg)]
                     [] op.o = "h" -> [hn EXCEPT !.pc = "done", !.rv = 0]
                     [] op.o = "r" -> [hn EXCEPT !.release = Atof(op.arg)]
                     [] op.o = "T" -> [hn EXCEPT !.tp = TRUE]
                     [] op.o = "t" -> [hn EXCEPT !.threshold = Atof(op.arg)]
                     [] op.o = "V" -> [hn EXCEPT !.pc = "done", !.rv = 0]
                     [] op.o = "v" -> hn
                     [] OTHER -> [hn EXCEPT !.pc = "done", !.rv = 1]
       IN  Case(host.opts[host.optind + 1], [host EXCEPT !.optind = @ + 1])
    /\ UNCHANGED <<histVars, upsVars, engVars>>

\* the checks between the option loop and the first sf_open: each failure
\* is ::exit (EXIT_FAILURE)
MainChecks ==
    /\ host.pc = "getopt"
    /\ host.optind = Len(host.opts)
    /\ host' =
          IF \/ Len(host.files) < 2
             \/ host.files[1] = host.files[2] /\ host.files[1] # "-"
             \/ FLess(host.release, 1000) \/ FGreater(host.release, 1000000)
             \/ FLess(host.threshold, -10000) \/ FGreater(host.threshold, 0)
             \/ FLess(host.gain, -10000) \/ FGreater(host.gain, 30000)
          THEN [host EXCEPT !.pc = "done", !.rv = 1]
          ELSE [host EXCEPT !.pc = "open"]
    /\ UNCHANGED <<histVars, upsVars, engVars>>

\* the two sf_open calls and the set-up of the engine; the source has N
\* frames and is seekable or not, and either sf_open may fail
MainOpen ==
    /\ host.pc = "open"
    /\ \/ \* the source cannot be opened: ::exit (EXIT_FAILURE)
          host' = [host EXCEPT !.pc = "done", !.rv = 1]
       \/ \* auto-gain on a source that is not seekable, or the destination
          \* cannot be opened: rv = 1; goto end
          host' = [host EXCEPT !.inOpen = TRUE, !.pc = "done", !.rv = 1]
       \/ \* out of memory: rv = 1; goto end
          host' = [host EXCEPT !.inOpen = TRUE, !.outOpen = TRUE,
                               !.pc = "done", !.rv = 1]
       \/ \E N \in MainSrc, fs \in MainFs :
             LET Ready(lat) ==
                     host' = [host EXCEPT !.inOpen = TRUE, !.outOpen = TRUE,
                                          !.src = N, !.rem = N, !.L = lat,
                                          !.latency = lat,
                                          !.pc = IF host.auto THEN "scan"
                                                 ELSE "loop"]
             IN  Ready(GetLatency(SetTruepeak(
                           PeaklimInit(PeaklimNew, fs, 1), host.tp)))
    /\ UNCHANGED <<histVars, upsVars, engVars>>

\* the auto-gain scan of the source and the rewind, which may fail
MainAutoGain ==
    /\ host.pc = "scan"
    /\ \/ host' = [host EXCEPT !.pc = "done", !.rv = 1]
       \/ host' = [host EXCEPT !.pc = "loop"]
    /\ UNCHANGED <<histVars, upsVars, engVars>>

MainNext ==
    \/ MainGetopt
    \/ MainChecks
    \/ MainOpen
    \/ MainAutoGain
    \/ HostLoop
    \/ HostFlush

SpecMain == MainInit /\ [][MainNext]_vars

\* the value x is inside the documented range lo .. hi
InRange(x, lo, hi) == ~x.nan /\ lo <= x.v /\ x.v <= hi

\* the command line is one the host has to refuse: a release time, a
\* threshold or an input gain outside its documented range, or the same
\* path twice other than "-"
BadCommand ==
    \/ ~InRange(host.release, 1000, 1000000)
    \/ ~InRange(host.threshold, -10000, 0)
    \/ ~InRange(host.gain, -10000, 30000)
    \/ Len(host.files) = 2 /\ host.files[1] = host.files[2]
                           /\ host.files[1] # "-"

\* the option loop has read every option and none of them was -h or -V,
\* which print and exit with EXIT_SUCCESS
OptionsRead ==
    /\ host.optind = Len(host.opts)
    /\ \A i \in 1..Len(host.opts) : host.opts[i].o \notin {"h", "V"}

\* C11, the checks: once the options are read, a command to refuse never
\* gets a file opened and ends with a non-zero exit code.
C11_Refused ==
    (OptionsRead /\ BadCommand) =>
        /\ ~host.inOpen /\ ~host.outOpen
        /\ host.pc = "done" => host.rv # 0

\* C11, the writes: a short write ends main, with a non-zero exit code.
C11_ShortWriteFatal ==
    host.short => host.pc = "done" /\ host.rv # 0

\* C11: a release time, threshold or input gain outside its range, or the
\* same source and destination path other than "-", makes the host (unless
\* it was asked for its help or version text) exit non-zero before it opens
\* either file; a short write stops the host with
\* a non-zero exit code; exit code 0 is returned only when every write was
\* complete.
C11_HostErrors ==
    /\ C11_Refused
    /\ C11_ShortWriteFatal
    /\ (host.pc = "done" /\ host.rv = 0) => ~host.short

-----------------------------------------------------------------------------
(* Properties of the engine                                                 *)

\* 1e-5, rounded up to the next multiple of 1/One
Eps == One \div 100000 + 1

\* C1: in digital-peak mode with input gain 0 dB, every output sample after
\* the first get_latency() frames has a magnitude of at most the threshold
\* times 1 + 1e-5, that is |y| * _gt <= 1 + 1e-5.
C1_BoundedOutput ==
    (~p.truepeak /\ p.g1 = GOne) =>
        \A k \in (GetLatency(p) + 1)..Len(tr.out) : \A c \in 1..p.nchan :
            Mul(Abs(tr.out[k][c]), p.gt) <= One + Eps

\* C2: from the same engine state, one process call of n frames and two
\* calls of n1 and n - n1 frames give the same output frames and leave the
\* same engine, for every split n1.
C2_BlockInvariance ==
    \A n \in blens : \A n1 \in 1..(n - 1) :
        t + n <= lim =>
            LET Equal(one, fst, snd) ==
                    /\ one.out = fst.out \o snd.out
                    /\ one.e = snd.e
                Second(blk, fst) ==
                    Equal(Process(p, n, blk), fst,
                          Process(fst.e, n - n1, SubSeq(blk, n1 + 1, n)))
                Split(blk) == Second(blk, Process(p, n1, SubSeq(blk, 1, n1)))
            IN  Split(Block(sig, t, n, p.nchan))

\* the output frames so far are the input frames d frames earlier, and 0
\* for the first d frames
Delayed(d) ==
    \A k \in 1..Len(tr.out) : \A c \in 1..p.nchan :
        tr.out[k][c] = IF k - 1 < d THEN 0 ELSE In(sig, t0 + k - 1 - d, c - 1)

\* no gain reduction so far, and the output is the input d frames earlier
PassThrough(d) ==
    /\ \A k \in 1..Len(tr.h1w) : tr.h1w[k] = One
    /\ \A k \in 1..Len(tr.h2w) : tr.h2w[k] = One
    /\ \A k \in 1..Len(tr.z3s) : tr.z3s[k] = One
    /\ p.z1 = One /\ p.z2 = One /\ p.z3 = One
    /\ Delayed(d)

\* input gain 0 dB, threshold 0 dBFS and an input within [-1, 1]
UnityInput == sig.amp <= One /\ p.gt = One /\ p.g1 = GOne /\ p.g0 = GOne

C6_InitNoOp == (last = "init" /\ t0 > 0) => p = pre

\* C6: init (fs, C) on an engine that has C channels already resets it: the
\* ring is zeroed, the read index is 0, the chunk counters and the histories
\* are as after the first init, z1 = z2 = z3 = 1, threshold and input gain
\* are back at 0 dB and the release at 10 ms, gmax = gmin = 1; only _peak,
\* _rstat, _truepeak and the upsampler histories are left as they were.
C6_InitResets ==
    (last = "init" /\ t0 > 0) =>
        /\ p.fsamp = pre.fsamp /\ p.nchan = pre.nchan /\ p.delay = pre.delay
        /\ p.delri = 0
        /\ \A c \in 0..(p.nchan - 1) :
              /\ \A i \in 0..(p.dsize - 1) : p.dbuff[c][i] = 0
              /\ p.zlf[c] = 0
        /\ p.c1 = p.div1 /\ p.c2 = p.div2 /\ p.m1 = 0 /\ p.m2 = 0
        /\ p.hist1 = HistminInit(K1(p.fsamp) + 1)
        /\ p.hist2 = HistminInit(12)
        /\ p.z1 = One /\ p.z2 = One /\ p.z3 = One
        /\ p.gt = One /\ p.g0 = GOne /\ p.g1 = GOne /\ p.dg = 0
        /\ p.w3 = FixDiv(100, p.fsamp)
        /\ p.gmax = One /\ p.gmin = One
        /\ p.peak = pre.peak /\ p.rstat = pre.rstat
        /\ p.truepeak = pre.truepeak /\ p.z = pre.z

\* C6 witness: init called again on an engine in the middle of a chunk, with
\* gain reduction under way and threshold, input gain and release set.
C6_Witness ==
    /\ last = "init" /\ t0 > 0
    /\ pre.z3 < One /\ pre.z1 < One
    /\ pre.gt # One /\ pre.g1 # GOne /\ pre.w3 # FixDiv(100, pre.fsamp)
    /\ pre.delri # 0 /\ pre.c1 # pre.div1
    /\ \E i \in 0..(pre.dsize - 1) : pre.dbuff[0][i] # 0
    /\ pre.peak > One

SeqMax(s) == CHOOSE m \in {s[k] : k \in 1..Len(s)} :
                \A k \in 1..Len(s) : m >= s[k]

\* the gains z3 applied, and the chunk maxima m1 * _gt taken, since the last
\* get_stats
GainsSince == SubSeq(tr.z3s, sr.mark + 1, Len(tr.z3s))
PeaksSince == SubSeq(tr.pks, sr.pmark + 1, Len(tr.pks))

\* C7: after a get_stats, once frames have been processed, _gmin and _gmax
\* (what the next get_stats returns) are the minimum and the maximum of the
\* gain z3 over the frames processed since, and _peak is the largest
\* m1 * _gt of the coarse-chunk boundaries since (0 when there was none).
C7_StatsSinceRead ==
    (sr.armed /\ Len(tr.z3s) > sr.mark) =>
        /\ p.gmin = SeqMin(GainsSince)
        /\ p.gmax = SeqMax(GainsSince)
        /\ p.peak = IF PeaksSince = <<>> THEN 0 ELSE SeqMax(PeaksSince)

\* set_truepeak (v) with v the flag in force changes nothing
SameFlagNoOp == (last = "set_truepeak" /\ pre.truepeak = p.truepeak) => p = pre

\* e with the upsampler histories of its channels zeroed
Zeroed(e) ==
    [e EXCEPT !.z = [c \in DOMAIN e.z |->
                        IF c < e.nchan THEN ZeroTaps ELSE e.z[c]]]

\* C8 as stated: set_truepeak (current) changes nothing, and after
\* set_truepeak (!current) twice, whatever the flag, the engine produces the
\* output it would have produced without the two calls.
C8_ToggleNeutral == SameFlagNoOp /\ same

\* C8: set_truepeak (current) changes nothing; set_truepeak (!current)
\* twice leaves the flag and the limiter state as they were and the
\* upsampler histories zeroed, so that the output is that of an engine never
\* toggled as long as the two calls were made with true-peak detection off.
C8_ToggleOff ==
    /\ SameFlagNoOp
    /\ last = "toggle_twice" => p = Zeroed(pre)
    /\ ~dtOn => same

\* C8 witness: the two calls made with detection off, in a run that went on
\* into gain reduction.
C8_Witness ==
    /\ dtOff /\ ~dtOn
    /\ last = "process"
    /\ same
    /\ p.z3 < One
    /\ Len(tr.out) > p.delay
    /\ tr.out[Len(tr.out)][1] # 0

\* C10: output frame t of channel c is z3(t) times the gain-scaled input of
\* channel c at frame t - delay, and 0 for t < delay, with the same z3(t) and
\* the same input gain for every channel; a channel whose input is all zero
\* puts out 0.
C10_DelayLine ==
    /\ \A k \in 1..Len(tr.out) : \A c \in 1..p.nchan :
          tr.out[k][c] =
              IF k - 1 < p.delay THEN 0
              ELSE Mul(tr.z3s[k],
                       MulGain(tr.gs[k - p.delay],
                               In(sig, t0 + k - 1 - p.delay, c - 1)))
    /\ \A c \in 1..p.nchan :
          (\A n \in 0..(t - 1) : In(sig, n, c - 1) = 0) =>
              \A k \in 1..Len(tr.out) : tr.out[k][c] = 0

\* C10 witness: two channels, the ring gone round, and an output frame with
\* gain reduction whose input was scaled by a gain on the ramp.
C10_Witness ==
    /\ p.nchan = 2
    /\ Len(tr.out) > p.dsize + p.delay
    /\ \E k \in (p.dsize + 1)..Len(tr.out) :
          /\ tr.z3s[k] < One
          /\ tr.gs[k - p.delay] > GOne
          /\ tr.gs[k - p.delay] < p.g1
          /\ tr.out[k][1] # 0
          /\ tr.out[k][2] # 0

\* z is an inverse gain of the range (0, 1]
InUnit(z) == 0 < z /\ z <= One

\* C12: at every sample rate init takes, z1, z2 and z3 are greater than 0
\* and at most 1 after every process call, and so is the z3 applied to
\* every frame.
C12_EnvelopeRange ==
    /\ InUnit(p.z1)
    /\ InUnit(p.z2)
    /\ InUnit(p.z3)
    /\ \A k \in 1..Len(tr.z3s) : InUnit(tr.z3s[k])

\* the frames from one super-chunk boundary to the next, and the frames
\* the engine e has to go to its next super-chunk boundary
SuperLen(e) == e.div1 * e.div2
ToBoundary(e) == e.c1 + (e.c2 - 1) * e.div1

\* the value of _g0 and the step _dg set at the next super-chunk boundary
\* of the engine e, should g1 stay what it is
BoundaryG0(e) == e.g0 + ToBoundary(e) * e.dg
BoundaryDg(e) ==
    IF e.g1 = BoundaryG0(e) THEN 0
    ELSE (e.g1 - BoundaryG0(e)) \div SuperLen(e)

\* the input gain i frames on from the engine e at one step of _dg a frame,
\* for i up to the next super-chunk boundary but one
RampAt(e, i) ==
    IF i < ToBoundary(e) THEN e.g0 + i * e.dg
    ELSE BoundaryG0(e) + (i - ToBoundary(e)) * BoundaryDg(e)

\* C13: every process call of n frames applies to its frame i the gain
\* g0 + i * dg up to the next super-chunk boundary, where dg becomes
\* (g1 - g0) / (D1 * D2), and then the gain stepped by the new dg once a
\* frame, whatever the channel count and the block lengths; it leaves g0 and
\* dg accordingly.  While dg is not 0 the ramp ends on g1 at the next
\* super-chunk boundary, up to the rounding of the division (less than
\* D1 * D2 units of the gain resolution), so that dg becomes 0 there.
C13_InputGainRamp ==
    /\ [][last' = "process" =>
            /\ \A i \in 0..(t' - t - 1) :
                  tr'.gs[Len(tr.gs) + 1 + i] = RampAt(p, i)
            /\ p'.g0 = RampAt(p, t' - t)
            /\ p'.dg = IF t' - t < ToBoundary(p) THEN p.dg ELSE BoundaryDg(p)]_vars
    /\ [](p.dg # 0 =>
            /\ Abs(p.g1 - BoundaryG0(p)) < SuperLen(p)
            /\ (p.g1 - BoundaryG0(p)) \div SuperLen(p) = 0)

\* C13 witness: two channels, the gain changed after the first super-chunk
\* boundary (the second frame after it still has gain 1), a frame on the
\* ramp, and the ramp ended with g0 at g1 and dg = 0.
C13_Witness ==
    /\ p.nchan = 2
    /\ Len(tr.gs) > 2 * SuperLen(p)
    /\ tr.gs[SuperLen(p) + 2] = GOne
    /\ \E k \in 1..Len(tr.gs) : GOne < tr.gs[k] /\ tr.gs[k] < p.g1 - SuperLen(p)
    /\ p.g1 > GOne
    /\ p.dg = 0
    /\ p.g1 - p.g0 < SuperLen(p)

\* ceil (1.2e-3 * fs / D1) in exact arithmetic, and whether 1.2e-3 * fs / D1
\* is a whole number
CeilK(fs, d1) == (12 * fs + 10000 * d1 - 1) \div (10000 * d1)
WholeK(fs, d1) == (12 * fs) % (10000 * d1) = 0

\* the smallest power of two that is at least n
RECURSIVE UpPow2(_, _)
UpPow2(d, n) == IF d >= n THEN d ELSE UpPow2(2 * d, n)
NextPow2(n) == UpPow2(1, n)

\* D1 is 8 up to 65000 Hz, 16 up to 130000 Hz, else 32
DividerOf(fs) == IF fs <= 65000 THEN 8 ELSE IF fs <= 130000 THEN 16 ELSE 32

\* C14 as stated: after init, D1 is chosen by the sample rate, delay is
\* ceil (1.2e-3 * fs / D1) * D1 and the ring size is the smallest power of
\* two that is at least delay + D1.
C14_ConfigExact ==
    last = "init" =>
        /\ p.div1 = DividerOf(p.fsamp)
        /\ p.delay = CeilK(p.fsamp, p.div1) * p.div1
        /\ p.dsize = NextPow2(p.delay + p.div1)

\* C14: after init, D1 is chosen by the sample rate; delay is K1 * D1 with
\* K1 = ceil (1.2e-3 * fs / D1), or one more than that at a rate where
\* 1.2e-3 * fs / D1 is a whole number; the ring size is the smallest power
\* of two that is at least delay + D1, and never less than 64.
C14_ConfigArithmetic ==
    last = "init" =>
        /\ p.div1 = DividerOf(p.fsamp)
        /\ \/ p.delay = CeilK(p.fsamp, p.div1) * p.div1
           \/ /\ WholeK(p.fsamp, p.div1)
              /\ p.delay = (CeilK(p.fsamp, p.div1) + 1) * p.div1
        /\ p.dsize = Max(64, NextPow2(p.delay + p.div1))
        /\ p.dmask = p.dsize - 1

\* C14 witness: an engine after init whose ring is larger than the smallest
\* power of two that holds delay + D1 frames.
C14_Witness ==
    /\ last = "init"
    /\ p.dsize > NextPow2(p.delay + p.div1)

\* the largest element of the set S of magnitudes, 0 for the empty set
SetMax(S) == IF S = {} THEN 0 ELSE CHOOSE m \in S : \A x \in S : x <= m

\* the magnitudes of the scaled input samples of the frames from .. to of
\* the run (counted from 1), all channels
ScaledMags(from, to) ==
    {Abs(MulGain(tr.gs[k], In(sig, t0 + k - 1, c - 1))) :
        k \in from..to, c \in 1..p.nchan}

\* C15: between process calls, with T frames processed since init, c1 is in
\* 1 .. D1 and c2 in 1 .. D2, at D1 - T mod D1 and D2 - (T div D1) mod D2;
\* hist1 has been written T div D1 times and hist2 T div (D1 * D2) times;
\* m1 is the peak of the frames since the last hist1 write only (0 when
\* there are none), and m2 is 0 when T is a multiple of D1 * D2.
C15_ChunkCadence ==
    LET Cadence(T, d1, d2) ==
            /\ 1 <= p.c1 /\ p.c1 <= d1
            /\ 1 <= p.c2 /\ p.c2 <= d2
            /\ p.c1 = d1 - (T % d1)
            /\ p.c2 = d2 - ((T \div d1) % d2)
            /\ Len(tr.h1w) = T \div d1
            /\ Len(tr.h2w) = T \div (d1 * d2)
            /\ p.m1 = SetMax(ScaledMags(T - (T % d1) + 1, T))
            /\ T % (d1 * d2) = 0 => p.m2 = 0
    IN  Cadence(Len(tr.out), p.div1, p.div2)

\* C15 witness: blocks that do not divide D1 have left the engine inside a
\* coarse chunk, with a peak held in m1, after two hist2 writes.
C15_Witness ==
    /\ Len(tr.out) % p.div1 # 0
    /\ p.c1 < p.div1
    /\ p.m1 > 0
    /\ Len(tr.h2w) >= 2
    /\ Len(tr.h1w) = Len(tr.out) \div p.div1

\* the offset, within a process call on the engine e, of the first frame of
\* the span that holds the frame at offset f: the first span has _c1 frames
\* and the later ones _div1
SpanStart(e, f) ==
    IF f < e.c1 THEN 0 ELSE e.c1 + ((f - e.c1) \div e.div1) * e.div1

\* the indices ri + i and wi + i at which that call reads and writes the
\* ring for the frame at offset f: ri is _delri in the first span and is
\* masked at the end of every span, wi is masked from the start
ReadIndex(e, f) ==
    LET Idx(s) ==
            (IF s = 0 THEN e.delri ELSE (e.delri + s) % e.dsize) + (f - s)
    IN  Idx(SpanStart(e, f))
WriteIndex(e, f) ==
    LET Idx(s) == ((e.delri + e.delay + s) % e.dsize) + (f - s)
    IN  Idx(SpanStart(e, f))

\* C16: whatever blocks have been processed since init, the next process
\* call, of any block length, reads and writes the ring at indices ri + i
\* and wi + i within 0 .. ring size - 1; ri and wi are congruent modulo D1
\* to the number of frames processed; and the ring holds the scaled input
\* of each of the last ring-size frames where the write index put it.
C16_RingIndexBounds ==
    LET Bounds(T) ==
            /\ \A n \in blens : \A f \in 0..(n - 1) :
                  /\ 0 <= ReadIndex(p, f) /\ ReadIndex(p, f) < p.dsize
                  /\ 0 <= WriteIndex(p, f) /\ WriteIndex(p, f) < p.dsize
            /\ p.delri % p.div1 = T % p.div1
            /\ ((p.delri + p.delay) % p.dsize) % p.div1 = T % p.div1
            /\ p.c1 + (T % p.div1) = p.div1
            /\ \A c \in 1..p.nchan : \A j \in Max(0, T - p.dsize)..(T - 1) :
                  p.dbuff[c - 1][(p.delay + j) % p.dsize] =
                      MulGain(tr.gs[j + 1], In(sig, t0 + j, c - 1))
    IN  Bounds(Len(tr.out))

\* C16 witness: the ring has gone round, and a call has ended inside a
\* coarse chunk so that the next span reads up to the last slot of the ring.
C16_Witness ==
    /\ Len(tr.out) > p.dsize
    /\ p.c1 < p.div1
    /\ p.delri + p.c1 = p.dsize
    /\ p.dbuff[0][p.dsize - 1] # 0

====
